---- MODULE Spec2Model ----
(***************************************************************************)
(* A model of rvpacker-txt-rs's command line driver (src/main.rs): the     *)
(* read, write and purge runs of `main`, the metadata side file they share *)
(* on disk, and the external Reader/Writer/Purger/Decrypter collaborators, *)
(* whose outcomes are nondeterministic.  A behaviour is a sequence of runs *)
(* of the program against one game directory.                              *)
(***************************************************************************)
EXTENDS Integers, Sequences, FiniteSets, TLC

(* Longest text typed at the force-mode prompt (before the line feed). *)
MaxLineLen == 2

(***************************************************************************)
(* Values                                                                  *)
(***************************************************************************)
ReadModes == {"Default", "Append", "Force"}
DuplicateModes == {"Allow", "Remove"}
Commands == {"Read", "Write", "Purge"}
GameTypes == {"None", "Termina", "LisaRPG"}

(* struct Metadata: the four persisted flags. *)
Metadata == [romanize : BOOLEAN, disable_custom_processing : BOOLEAN,
             trim : BOOLEAN, duplicate_mode : DuplicateModes]

(* #[derive(Default)] of Metadata. *)
DefaultMetadata == [romanize |-> FALSE, disable_custom_processing |-> FALSE,
                    trim |-> FALSE, duplicate_mode |-> "Allow"]

(* The JSON object a Metadata is stored as: #[serde(rename_all =           *)
(* "camelCase")] names the keys.                                           *)
MetadataJson == [romanize : BOOLEAN, disableCustomProcessing : BOOLEAN,
                 trim : BOOLEAN, duplicateMode : DuplicateModes]

(* serde_json::to_string(&metadata) *)
to_string(m) ==
    [romanize |-> m.romanize,
     disableCustomProcessing |-> m.disable_custom_processing,
     trim |-> m.trim, duplicateMode |-> m.duplicate_mode]

(* serde_json::from_str::<Metadata> of a well-formed object *)
from_str(j) ==
    [romanize |-> j.romanize,
     disable_custom_processing |-> j.disableCustomProcessing,
     trim |-> j.trim, duplicate_mode |-> j.duplicateMode]

(* The metadata file on disk: absent, present with unparsable content, or  *)
(* present holding a serialized Metadata (`json` counts in that case only).*)
AbsentFile == [kind |-> "absent", json |-> to_string(DefaultMetadata)]
GarbageFile == [kind |-> "garbage", json |-> to_string(DefaultMetadata)]

MetadataFiles == {AbsentFile, GarbageFile} \cup [kind : {"ok"}, json : MetadataJson]

(* ReadArgs / SharedArgs / PurgeArgs, the fields main uses. *)
Args == [read_mode : ReadModes, romanize : BOOLEAN, trim : BOOLEAN,
         duplicate_mode : DuplicateModes, disable_custom_processing : BOOLEAN,
         silent : BOOLEAN, ignore : BOOLEAN, create_ignore : BOOLEAN]

(* The flag combinations tried on the command line, and those a metadata   *)
(* file left by an earlier session may hold.                               *)
CliFlagSets ==
    { [romanize |-> FALSE, disable_custom_processing |-> FALSE,
       trim |-> FALSE, duplicate_mode |-> "Remove"],
      [romanize |-> TRUE, disable_custom_processing |-> FALSE,
       trim |-> FALSE, duplicate_mode |-> "Allow"],
      [romanize |-> FALSE, disable_custom_processing |-> FALSE,
       trim |-> TRUE, duplicate_mode |-> "Allow"],
      [romanize |-> TRUE, disable_custom_processing |-> TRUE,
       trim |-> FALSE, duplicate_mode |-> "Remove"] }

StoredFlagSets ==
    { [romanize |-> TRUE, disable_custom_processing |-> FALSE,
       trim |-> FALSE, duplicate_mode |-> "Allow"],
      [romanize |-> TRUE, disable_custom_processing |-> TRUE,
       trim |-> TRUE, duplicate_mode |-> "Allow"],
      [romanize |-> FALSE, disable_custom_processing |-> TRUE,
       trim |-> FALSE, duplicate_mode |-> "Remove"] }

(* The command lines enumerated: `silent` is tried in force mode and       *)
(* `ignore` in append mode, `create_ignore` belongs to purge, and the mode *)
(* is left at its default for write and purge.                             *)
MkArgs(f, mode, silent, ignore, create_ignore) ==
    [read_mode |-> mode, romanize |-> f.romanize, trim |-> f.trim,
     duplicate_mode |-> f.duplicate_mode,
     disable_custom_processing |-> f.disable_custom_processing,
     silent |-> silent, ignore |-> ignore, create_ignore |-> create_ignore]

ReadCommandLines ==
    {MkArgs(f, "Default", FALSE, FALSE, FALSE) : f \in CliFlagSets}
    \cup {MkArgs(f, "Append", FALSE, i, FALSE) : f \in CliFlagSets, i \in BOOLEAN}
    \cup {MkArgs(f, "Force", s, FALSE, FALSE) : f \in CliFlagSets, s \in BOOLEAN}

WriteCommandLines ==
    {MkArgs(f, "Default", FALSE, FALSE, FALSE) : f \in CliFlagSets}

PurgeCommandLines ==
    {MkArgs(f, "Default", FALSE, FALSE, c) : f \in CliFlagSets, c \in BOOLEAN}

CommandLines ==
    ({"Read"} \X ReadCommandLines) \cup ({"Write"} \X WriteCommandLines)
    \cup ({"Purge"} \X PurgeCommandLines)

(***************************************************************************)
(* Game titles: sequences of characters.                                   *)
(***************************************************************************)
UpperChars == <<"A", "E", "I", "L", "M", "N", "R", "S", "T">>
LowerChars == <<"a", "e", "i", "l", "m", "n", "r", "s", "t">>

Titles == { <<"T", "e", "r", "m", "i", "n", "a">>,
            <<"M", "a", "i", "l">> }

(* str::to_lowercase *)
to_lowercase(s) ==
    [i \in 1..Len(s) |->
        IF \E k \in 1..Len(UpperChars) : UpperChars[k] = s[i]
        THEN LowerChars[CHOOSE k \in 1..Len(UpperChars) : UpperChars[k] = s[i]]
        ELSE s[i]]

(* str::contains *)
contains(s, pat) ==
    \E i \in 0..(Len(s) - Len(pat)) : SubSeq(s, i + 1, i + Len(pat)) = pat

(* The classification with the two substring tests in the other order. *)
get_game_type_LisaFirst(game_title, disable_flag) ==
    IF disable_flag THEN "None"
    ELSE LET lowercased == to_lowercase(game_title) IN
         IF contains(lowercased, <<"l", "i", "s", "a">>) THEN "LisaRPG"
         ELSE IF contains(lowercased, <<"t", "e", "r", "m", "i", "n", "a">>) THEN "Termina"
         ELSE "None"

(* fn get_game_type *)
get_game_type(game_title, disable_flag) ==
    IF disable_flag THEN "None"
    ELSE LET lowercased == to_lowercase(game_title) IN
         IF contains(lowercased, <<"t", "e", "r", "m", "i", "n", "a">>) THEN "Termina"
         ELSE IF contains(lowercased, <<"l", "i", "s", "a">>) THEN "LisaRPG"
         ELSE "None"

(***************************************************************************)
(* Engine probing                                                          *)
(***************************************************************************)
(* The engine table probed from its last entry to its first. *)
EngineOrder_Reversed == <<"XP", "VX", "VXAce", "New">>

EngineOrder == <<"New", "VXAce", "VX", "XP">>
EngineTypes == {"New", "VXAce", "VX", "XP"}
NoEngine == "Undetermined"

(* archive_path is None for New only. *)
HasArchivePath(e) == e # "New"

(* find_map over the four (engine, system file, archive) entries. *)
EngineMatches(e, sys, arch) == e \in sys \/ (HasArchivePath(e) /\ e \in arch)

ResolveEngine(sys, arch) ==
    IF \E k \in 1..Len(EngineOrder) : EngineMatches(EngineOrder[k], sys, arch)
    THEN EngineOrder[CHOOSE k \in 1..Len(EngineOrder) :
                        /\ EngineMatches(EngineOrder[k], sys, arch)
                        /\ \A j \in 1..(k - 1) : ~EngineMatches(EngineOrder[j], sys, arch)]
    ELSE NoEngine

(* The game directories the runs are tried on: (system files, archives). *)
Layouts == { <<{"New"}, {}>>,
             <<{"VXAce"}, {"XP"}>>,
             <<{}, {"VX"}>>,
             <<{}, {}>> }

(***************************************************************************)
(* The confirmation prompt                                                 *)
(***************************************************************************)
LF == "\n"
TypedChars == {"Y", "N", " "}
Token == <<"Y">>

TypedTexts == UNION {[1..n -> TypedChars] : n \in 0..MaxLineLen}

IsWhitespace(c) == c \in {" ", LF}

(* str::trim_end *)
RECURSIVE trim_end(_)
trim_end(s) ==
    IF s = <<>> THEN s
    ELSE IF IsWhitespace(s[Len(s)]) THEN trim_end(SubSeq(s, 1, Len(s) - 1))
    ELSE s

(* The line typed, without the line feed that ends it. *)
LineEntered(b) ==
    IF b # <<>> /\ b[Len(b)] = LF THEN SubSeq(b, 1, Len(b) - 1) ELSE b

(***************************************************************************)
(* Configuration                                                           *)
(***************************************************************************)
(* parse_metadata: Ok(None), Err, or Ok(Some(metadata)). *)
parse_metadata(file) ==
    CASE file.kind = "absent" -> [err |-> FALSE, some |-> FALSE, data |-> DefaultMetadata]
      [] file.kind = "garbage" -> [err |-> TRUE, some |-> FALSE, data |-> DefaultMetadata]
      [] OTHER -> [err |-> FALSE, some |-> TRUE, data |-> from_str(file.json)]

(* The four mutable locals as initialised from the command line.  The two  *)
(* transmutes (lines 351-354) reinterpret the local DuplicateMode/ReadMode *)
(* as rvpacker_lib's enums of the same names; the variants are taken to    *)
(* correspond one to one.                                                  *)
FlagsOf(a) == [romanize |-> a.romanize,
               disable_custom_processing |-> a.disable_custom_processing,
               trim |-> a.trim, duplicate_mode |-> a.duplicate_mode]

(* ReadFlags without the override: the command line always wins. *)
ReadFlags_CliOnly(a, parsed) == FlagsOf(a)

(* ReadFlags without the is_append guard: the file wins in every mode. *)
ReadFlags_AnyMode(a, parsed) ==
    IF parsed.some THEN parsed.data ELSE FlagsOf(a)

(* Command::Read, lines 349-378: the locals start from the command line and *)
(* are overwritten from the metadata file in append mode only.             *)
ReadFlags(a, parsed) ==
    IF a.read_mode = "Append" /\ parsed.some THEN parsed.data ELSE FlagsOf(a)

(* WriteFlags without the override. *)
WriteFlags_CliOnly(a, parsed) == FlagsOf(a)

(* Command::Write, lines 451-468. *)
WriteFlags(a, parsed) ==
    IF parsed.some THEN parsed.data ELSE FlagsOf(a)

(* Command::Purge, lines 493-511. *)
PurgeFlags(a, parsed) ==
    IF parsed.some THEN parsed.data ELSE FlagsOf(a)

(* SerializedMetadata with romanize and trim stored in each other's field. *)
SerializedMetadata_Swapped(r, d, t, m) ==
    [kind |-> "ok",
     json |-> to_string([romanize |-> t, disable_custom_processing |-> d,
                         trim |-> r, duplicate_mode |-> m])]

(* The Metadata built at lines 397-402 and the file content written at 405. *)
SerializedMetadata(r, d, t, m) ==
    [kind |-> "ok",
     json |-> to_string([romanize |-> r, disable_custom_processing |-> d,
                         trim |-> t, duplicate_mode |-> m])]

(***************************************************************************)
(* State                                                                   *)
(***************************************************************************)
VARIABLES
    dirs,             \* which of input dir / output dir / source dir is missing, or "ok"
    sysFiles,         \* engines whose System descriptor exists in the source dir
    archives,         \* engines whose Game.rgss* archive exists in the input dir
    titleOk, title,   \* what get_game_title yields: Err, or Ok(title)
    translationDir,   \* translation_path.exists()
    metaFile,         \* the metadata file inside the translation directory
    ignoreFile,       \* ignore_file_path.exists()
    pc,               \* where the current run of main stands
    command, args,    \* cli.command and its arguments
    engine_type,
    romanize, trim, duplicate_mode, disable_custom_processing, game_type,
    buf,              \* the line read from stdin at the prompt
    result,           \* how the run ended: "Ok", "Err", "exit0"; "none" while running
    metaAtStart,      \* the metadata file when the run was launched
    translationAtStart,
    call,             \* the external Read/Write/Purge call of this run
    unpacked,         \* the archive was decrypted in this run
    lastRead          \* flags of the last successful default/force read, no read run since

(* Command::Asset: the state of an asset run (lines 548-672). *)
VARIABLES
    subcommand,       \* args.subcommand: "Decrypt", "Encrypt" or "ExtractKey"
    key,              \* args.key: "none", or how the given string parses as hex
    file,             \* args.file
    engine,           \* args.engine: "none", "MV" or "MZ"
    dirEntries,       \* what read_dir(input_dir) yields, in its order
    apc,              \* where the asset run stands
    decrypterKey,     \* the key the Decrypter holds
    idx,              \* the directory entry the loop is at
    touched,          \* entries (0: the --file target) process_file has read
    written,          \* <<entry, extension>> of the output files written
    failedAt,         \* the entry whose processing failed, 0 if none
    aresult,          \* how the asset run ended
    printed           \* what "Encryption key: ..." printed, if anything

(* The instants of one run of main (lines 260, 381-393, 675), in ticks. *)
VARIABLES
    now,              \* the monotonic clock
    start_time,       \* main's start_time
    launched,         \* the instant main began
    waited,           \* ticks spent blocked in read_line
    elapsed,          \* the duration printed by "Elapsed: ..."
    tpc               \* where the timed run stands

VARIABLES
    prev              \* set when the run under way repeats the one before it

assetVars == <<subcommand, key, file, engine, dirEntries, apc, decrypterKey, idx,
               touched, written, failedAt, aresult, printed>>
clockVars == <<now, start_time, launched, waited, elapsed, tpc>>

(* --file absent. *)
NoFile == [given |-> FALSE, name |-> "", ext |-> "", is_file |-> FALSE, marker |-> "absent"]

(* No asset run is under way. *)
AssetIdle ==
    /\ subcommand = "Decrypt" /\ key = "none" /\ file = NoFile /\ engine = "none"
    /\ dirEntries = <<>> /\ apc = "off" /\ decrypterKey = "unset" /\ idx = 0
    /\ touched = {} /\ written = {} /\ failedAt = 0 /\ aresult = "none"
    /\ printed = "none"

(* No run is being timed. *)
ClockIdle ==
    /\ now = 0 /\ start_time = 0 /\ launched = 0 /\ waited = 0 /\ elapsed = 0
    /\ tpc = "off"

fsVars == <<dirs, sysFiles, archives, titleOk, title, translationDir, metaFile, ignoreFile>>
locals == <<romanize, trim, duplicate_mode, disable_custom_processing, game_type>>
vars == <<dirs, sysFiles, archives, titleOk, title, translationDir, metaFile, ignoreFile,
          pc, command, args, engine_type,
          romanize, trim, duplicate_mode, disable_custom_processing, game_type,
          buf, result, metaAtStart, translationAtStart, call, unpacked, lastRead,
          subcommand, key, file, engine, dirEntries, apc, decrypterKey, idx,
          touched, written, failedAt, aresult, printed,
          now, start_time, launched, waited, elapsed, tpc,
          prev>>

NoCall == [op |-> "none", result |-> "none", romanize |-> FALSE, trim |-> FALSE,
           duplicate_mode |-> "Allow", game_type |-> "None"]

NoRead == [valid |-> FALSE, flags |-> DefaultMetadata]

(* The run under way does not repeat the run before it. *)
NoPrev == [valid |-> FALSE, file |-> AbsentFile]

DefaultArgs == [read_mode |-> "Default", romanize |-> FALSE, trim |-> FALSE,
                duplicate_mode |-> "Allow", disable_custom_processing |-> FALSE,
                silent |-> FALSE, ignore |-> FALSE, create_ignore |-> FALSE]

(* process exit status *)
ExitStatus(r) == IF r = "Err" THEN 1 ELSE 0

Init ==
    /\ dirs \in {"ok", "no_input", "no_output", "no_source"}
    /\ \E l \in Layouts : sysFiles = l[1] /\ archives = l[2]
    /\ titleOk \in BOOLEAN
    /\ title \in (IF titleOk THEN Titles ELSE {<<>>})
    /\ translationDir \in BOOLEAN
    /\ metaFile \in {AbsentFile, GarbageFile}
                    \cup {[kind |-> "ok", json |-> to_string(f)] : f \in StoredFlagSets}
    /\ ignoreFile \in BOOLEAN
    \* the two side files live inside the translation directory
    /\ ~translationDir => (metaFile = AbsentFile /\ ~ignoreFile)
    \* a game directory that lacks its roots holds nothing else
    /\ dirs # "ok" => (~translationDir /\ sysFiles = {} /\ archives = {} /\ ~titleOk)
    /\ pc = "idle"
    /\ command = "Read"
    /\ args = DefaultArgs
    /\ engine_type = NoEngine
    /\ romanize = FALSE /\ trim = FALSE /\ duplicate_mode = "Allow"
    /\ disable_custom_processing = FALSE /\ game_type = "None"
    /\ buf = <<>>
    /\ result = "none"
    /\ metaAtStart = metaFile
    /\ translationAtStart = translationDir
    /\ call = NoCall
    /\ unpacked = FALSE
    /\ lastRead = NoRead /\ prev = NoPrev
    /\ AssetIdle
    /\ ClockIdle

(* bail! / `?` on an Err: main returns Err. *)
Bail == pc' = "done" /\ result' = "Err"

(* main returns Ok(()) after the match. *)
ReturnOk == pc' = "done" /\ result' = "Ok"

(***************************************************************************)
(* main, lines 259-346: the checks before the command is dispatched.       *)
(***************************************************************************)
Launch ==
    /\ pc \in {"idle", "done"}
    /\ \E cl \in CommandLines :
        /\ command' = cl[1]
        /\ args' = cl[2]
        /\ lastRead' = IF cl[1] = "Read" THEN NoRead ELSE lastRead
    /\ metaAtStart' = metaFile
    /\ translationAtStart' = translationDir
    /\ call' = NoCall
    /\ unpacked' = FALSE
    /\ buf' = <<>>
    /\ romanize' = FALSE /\ trim' = FALSE /\ duplicate_mode' = "Allow"
    /\ disable_custom_processing' = FALSE /\ game_type' = "None"
    /\ engine_type' = IF dirs = "ok" THEN ResolveEngine(sysFiles, archives) ELSE NoEngine
    /\ IF dirs # "ok" \/ ResolveEngine(sysFiles, archives) = NoEngine
       THEN Bail
       ELSE pc' = command' /\ result' = "none"
    /\ UNCHANGED fsVars
    /\ UNCHANGED <<assetVars, clockVars>>
    /\ prev' = NoPrev

(***************************************************************************)
(* Command::Read                                                           *)
(***************************************************************************)
(* lines 348-378: title, game type, then the append-mode override. *)
ReadConfigure ==
    /\ pc = "Read"
    /\ LET parsed == parse_metadata(metaFile)
           flags == ReadFlags(args, parsed)
       IN IF ~titleOk \/ (args.read_mode = "Append" /\ parsed.err)
          THEN /\ Bail
               /\ UNCHANGED locals
          ELSE /\ game_type' = get_game_type(title, args.disable_custom_processing)
               /\ romanize' = flags.romanize
               /\ trim' = flags.trim
               /\ duplicate_mode' = flags.duplicate_mode
               /\ disable_custom_processing' = flags.disable_custom_processing
               /\ pc' = IF args.read_mode = "Force" /\ ~args.silent
                        THEN "prompt" ELSE "persist"
               /\ result' = "none"
    /\ UNCHANGED <<fsVars, command, args, engine_type, buf, metaAtStart,
                   translationAtStart, call, unpacked, lastRead>>
    /\ UNCHANGED <<assetVars, clockVars, prev>>

(* Confirm without the exit: the run goes on whatever was typed. *)
Confirm_NoExit ==
    /\ pc = "prompt"
    /\ \E typed \in TypedTexts : buf' = typed \o <<LF>>
    /\ pc' = "persist" /\ result' = "none"
    /\ UNCHANGED <<fsVars, command, args, engine_type, locals, metaAtStart,
                   translationAtStart, call, unpacked, lastRead>>
    /\ UNCHANGED <<assetVars, clockVars, prev>>

(* lines 380-394: the force-mode confirmation. *)
Confirm ==
    /\ pc = "prompt"
    /\ \E typed \in TypedTexts : buf' = typed \o <<LF>>
    /\ IF trim_end(buf') # Token
       THEN pc' = "done" /\ result' = "exit0"
       ELSE pc' = "persist" /\ result' = "none"
    /\ UNCHANGED <<fsVars, command, args, engine_type, locals, metaAtStart,
                   translationAtStart, call, unpacked, lastRead>>
    /\ UNCHANGED <<assetVars, clockVars, prev>>

(* ReadPersist that saves the file in append mode too, with romanize and   *)
(* trim exchanged.                                                         *)
ReadPersist_AppendSavesSwapped ==
    /\ pc = "persist"
    /\ IF args.read_mode # "Append"
       THEN /\ translationDir' = TRUE
            /\ metaFile' = SerializedMetadata(romanize, disable_custom_processing,
                                              trim, duplicate_mode)
            /\ pc' = "unpack" /\ result' = "none"
       ELSE /\ translationDir' = TRUE
            /\ metaFile' = SerializedMetadata_Swapped(romanize, disable_custom_processing,
                                                      trim, duplicate_mode)
            /\ IF args.ignore /\ ~ignoreFile
               THEN Bail
               ELSE pc' = "unpack" /\ result' = "none"
    /\ UNCHANGED <<dirs, sysFiles, archives, titleOk, title, ignoreFile,
                   command, args, engine_type, locals, buf, metaAtStart,
                   translationAtStart, call, unpacked, lastRead>>
    /\ UNCHANGED <<assetVars, clockVars, prev>>

(* ReadPersist without the ignore file check. *)
ReadPersist_NoIgnoreCheck ==
    /\ pc = "persist"
    /\ IF args.read_mode # "Append"
       THEN /\ translationDir' = TRUE
            /\ metaFile' = SerializedMetadata(romanize, disable_custom_processing,
                                              trim, duplicate_mode)
       ELSE UNCHANGED <<translationDir, metaFile>>
    /\ pc' = "unpack" /\ result' = "none"
    /\ UNCHANGED <<dirs, sysFiles, archives, titleOk, title, ignoreFile,
                   command, args, engine_type, locals, buf, metaAtStart,
                   translationAtStart, call, unpacked, lastRead>>
    /\ UNCHANGED <<assetVars, clockVars, prev>>

(* lines 396-410: the metadata file is written unless in append mode;      *)
(* in append mode the ignore file is required when --ignore is given.      *)
ReadPersist ==
    /\ pc = "persist"
    /\ IF args.read_mode # "Append"
       THEN /\ translationDir' = TRUE
            /\ metaFile' = SerializedMetadata(romanize, disable_custom_processing,
                                              trim, duplicate_mode)
            /\ pc' = "unpack" /\ result' = "none"
       ELSE /\ UNCHANGED <<translationDir, metaFile>>
            /\ IF args.ignore /\ ~ignoreFile
               THEN Bail
               ELSE pc' = "unpack" /\ result' = "none"
    /\ UNCHANGED <<dirs, sysFiles, archives, titleOk, title, ignoreFile,
                   command, args, engine_type, locals, buf, metaAtStart,
                   translationAtStart, call, unpacked, lastRead>>
    /\ UNCHANGED <<assetVars, clockVars, prev>>

(* Unpack without the system file check: any engine with an archive path   *)
(* has its archive read and decrypted.                                     *)
Unpack_Always ==
    /\ pc = "unpack"
    /\ IF HasArchivePath(engine_type)
       THEN \E outcome \in {"err", "files", "files_with_system"} :
               /\ unpacked' = (outcome # "err")
               /\ sysFiles' = IF outcome = "files_with_system"
                              THEN sysFiles \cup {engine_type} ELSE sysFiles
               /\ IF outcome = "err" THEN Bail ELSE pc' = "reader" /\ result' = "none"
       ELSE /\ UNCHANGED <<unpacked, sysFiles>>
            /\ pc' = "reader" /\ result' = "none"
    /\ UNCHANGED <<dirs, archives, titleOk, title, translationDir, metaFile, ignoreFile,
                   command, args, engine_type, locals, buf, metaAtStart,
                   translationAtStart, call, lastRead>>
    /\ UNCHANGED <<assetVars, clockVars, prev>>

(* lines 412-429: decrypt the archive when the system file is missing.     *)
(* The decrypter may fail; the files it returns may or may not include the *)
(* system descriptor.                                                      *)
Unpack ==
    /\ pc = "unpack"
    /\ IF HasArchivePath(engine_type) /\ engine_type \notin sysFiles
       THEN \E outcome \in {"err", "files", "files_with_system"} :
               /\ unpacked' = (outcome # "err")
               /\ sysFiles' = IF outcome = "files_with_system"
                              THEN sysFiles \cup {engine_type} ELSE sysFiles
               /\ IF outcome = "err" THEN Bail ELSE pc' = "reader" /\ result' = "none"
       ELSE /\ UNCHANGED <<unpacked, sysFiles>>
            /\ pc' = "reader" /\ result' = "none"
    /\ UNCHANGED <<dirs, archives, titleOk, title, translationDir, metaFile, ignoreFile,
                   command, args, engine_type, locals, buf, metaAtStart,
                   translationAtStart, call, lastRead>>
    /\ UNCHANGED <<assetVars, clockVars, prev>>

(* lines 431-440: the external Read, which returns Ok or Err. *)
ReadDispatch ==
    /\ pc = "reader"
    /\ \E outcome \in {"ok", "err"} :
        /\ call' = [op |-> "read", result |-> outcome, romanize |-> romanize,
                    trim |-> trim, duplicate_mode |-> duplicate_mode,
                    game_type |-> game_type]
        /\ IF outcome = "ok" THEN ReturnOk ELSE Bail
        /\ lastRead' = IF outcome = "ok" /\ args.read_mode # "Append"
                       THEN [valid |-> TRUE,
                             flags |-> [romanize |-> romanize,
                                        disable_custom_processing |-> disable_custom_processing,
                                        trim |-> trim, duplicate_mode |-> duplicate_mode]]
                       ELSE NoRead
    /\ UNCHANGED <<fsVars, command, args, engine_type, locals, buf, metaAtStart,
                   translationAtStart, unpacked>>
    /\ UNCHANGED <<assetVars, clockVars, prev>>

(***************************************************************************)
(* Command::Write                                                          *)
(***************************************************************************)
(* lines 443-473: translation directory check, metadata override, title. *)
WriteConfigure ==
    /\ pc = "Write"
    /\ LET parsed == parse_metadata(metaFile)
           flags == WriteFlags(args, parsed)
       IN IF ~translationDir \/ parsed.err \/ ~titleOk
          THEN /\ Bail
               /\ UNCHANGED locals
          ELSE /\ romanize' = flags.romanize
               /\ trim' = flags.trim
               /\ duplicate_mode' = flags.duplicate_mode
               /\ disable_custom_processing' = flags.disable_custom_processing
               /\ game_type' = get_game_type(title, flags.disable_custom_processing)
               /\ pc' = "writer" /\ result' = "none"
    /\ UNCHANGED <<fsVars, command, args, engine_type, buf, metaAtStart,
                   translationAtStart, call, unpacked, lastRead>>
    /\ UNCHANGED <<assetVars, clockVars, prev>>

(* WriteDispatch that saves the flags to the metadata file as read does. *)
WriteDispatch_SavesMetadata ==
    /\ pc = "writer"
    /\ \E outcome \in {"ok", "err"} :
        /\ call' = [op |-> "write", result |-> outcome, romanize |-> romanize,
                    trim |-> trim, duplicate_mode |-> duplicate_mode,
                    game_type |-> game_type]
        /\ IF outcome = "ok" THEN ReturnOk ELSE Bail
    /\ metaFile' = SerializedMetadata(args.romanize, args.disable_custom_processing,
                                      args.trim, args.duplicate_mode)
    /\ UNCHANGED <<dirs, sysFiles, archives, titleOk, title, translationDir, ignoreFile,
                   command, args, engine_type, locals, buf, metaAtStart,
                   translationAtStart, unpacked, lastRead>>
    /\ UNCHANGED <<assetVars, clockVars, prev>>

(* lines 475-487: the external Write, which returns Ok or Err. *)
WriteDispatch ==
    /\ pc = "writer"
    /\ \E outcome \in {"ok", "err"} :
        /\ call' = [op |-> "write", result |-> outcome, romanize |-> romanize,
                    trim |-> trim, duplicate_mode |-> duplicate_mode,
                    game_type |-> game_type]
        /\ IF outcome = "ok" THEN ReturnOk ELSE Bail
    /\ UNCHANGED <<fsVars, command, args, engine_type, locals, buf, metaAtStart,
                   translationAtStart, unpacked, lastRead>>
    /\ UNCHANGED <<assetVars, clockVars, prev>>

(***************************************************************************)
(* Command::Purge                                                          *)
(***************************************************************************)
(* lines 490-516: metadata override, title. *)
PurgeConfigure ==
    /\ pc = "Purge"
    /\ LET parsed == parse_metadata(metaFile)
           flags == PurgeFlags(args, parsed)
       IN IF parsed.err \/ ~titleOk
          THEN /\ Bail
               /\ UNCHANGED locals
          ELSE /\ romanize' = flags.romanize
               /\ trim' = flags.trim
               /\ duplicate_mode' = flags.duplicate_mode
               /\ disable_custom_processing' = flags.disable_custom_processing
               /\ game_type' = get_game_type(title, flags.disable_custom_processing)
               /\ pc' = "purger" /\ result' = "none"
    /\ UNCHANGED <<fsVars, command, args, engine_type, buf, metaAtStart,
                   translationAtStart, call, unpacked, lastRead>>
    /\ UNCHANGED <<assetVars, clockVars, prev>>

(* lines 518-526: the external Purge, which returns Ok or Err; with        *)
(* --create-ignore a successful purge leaves the ignore file behind.       *)
PurgeDispatch ==
    /\ pc = "purger"
    /\ \E outcome \in {"ok", "err"} :
        /\ call' = [op |-> "purge", result |-> outcome, romanize |-> romanize,
                    trim |-> trim, duplicate_mode |-> duplicate_mode,
                    game_type |-> game_type]
        /\ ignoreFile' = IF outcome = "ok" /\ args.create_ignore /\ translationDir
                         THEN TRUE ELSE ignoreFile
        /\ IF outcome = "ok" THEN ReturnOk ELSE Bail
    /\ UNCHANGED <<dirs, sysFiles, archives, titleOk, title, translationDir, metaFile,
                   command, args, engine_type, locals, buf, metaAtStart,
                   translationAtStart, unpacked, lastRead>>
    /\ UNCHANGED <<assetVars, clockVars, prev>>

Next ==
    \/ Launch
    \/ ReadConfigure
    \/ Confirm
    \/ ReadPersist
    \/ Unpack
    \/ ReadDispatch
    \/ WriteConfigure
    \/ WriteDispatch
    \/ PurgeConfigure
    \/ PurgeDispatch

Spec == Init /\ [][Next]_vars

TypeOK ==
    /\ metaFile \in MetadataFiles
    /\ args \in Args
    /\ pc \in {"idle", "done", "Read", "prompt", "persist", "unpack", "reader",
               "Write", "writer", "Purge", "purger"}
    /\ result \in {"none", "Ok", "Err", "exit0"}
    /\ game_type \in GameTypes
    /\ engine_type \in EngineTypes \cup {NoEngine}

(***************************************************************************)
(* Properties                                                              *)
(***************************************************************************)
(* M: the Metadata held by the metadata file the run started with. *)
MetadataAtStart == from_str(metaAtStart.json)

(* The flags the run holds in its four locals. *)
RunFlags == [romanize |-> romanize,
             disable_custom_processing |-> disable_custom_processing,
             trim |-> trim, duplicate_mode |-> duplicate_mode]

(* A read run that is past the configuration step (line 378). *)
ReadResolved ==
    /\ command = "Read"
    /\ pc \in {"prompt", "persist", "unpack", "reader"} \/ call.op = "read"

(* The external call was handed romanize/trim/duplicate mode of f and the  *)
(* game type of the title under f's disable flag.                          *)
HandedFlags(f) ==
    /\ call.romanize = f.romanize
    /\ call.trim = f.trim
    /\ call.duplicate_mode = f.duplicate_mode
    /\ call.game_type = get_game_type(title, f.disable_custom_processing)

(* Nothing on disk differs from the start of the run, nothing was unpacked *)
(* and no external Read/Write/Purge was invoked.                           *)
NothingDone ==
    /\ metaFile = metaAtStart
    /\ translationDir = translationAtStart
    /\ ~unpacked
    /\ call.op = "none"

(* C1: in an append-mode read run that found a parseable metadata file M,  *)
(* the resolved romanize, trim, duplicate-mode and disable-custom-         *)
(* processing values equal M's fields, whatever the command line gave, and *)
(* romanize, trim and duplicate mode are handed to Read as such.           *)
C1_AppendReadUsesMetadata ==
    (ReadResolved /\ args.read_mode = "Append" /\ metaAtStart.kind = "ok")
        => /\ RunFlags = MetadataAtStart
           /\ call.op = "read" =>
                 /\ call.romanize = MetadataAtStart.romanize
                 /\ call.trim = MetadataAtStart.trim
                 /\ call.duplicate_mode = MetadataAtStart.duplicate_mode

C1_Witness ==
    /\ command = "Read" /\ args.read_mode = "Append" /\ metaAtStart.kind = "ok"
    /\ call.op = "read" /\ result = "Ok"
    /\ FlagsOf(args).romanize # MetadataAtStart.romanize
    /\ FlagsOf(args).trim # MetadataAtStart.trim
    /\ FlagsOf(args).duplicate_mode # MetadataAtStart.duplicate_mode
    /\ FlagsOf(args).disable_custom_processing # MetadataAtStart.disable_custom_processing

(* C2: a write or purge run that found a parseable metadata file M hands   *)
(* the external Write/Purge M's romanize, trim and duplicate mode and the  *)
(* game type of the title under M's disable flag, whatever the command     *)
(* line gave.                                                              *)
C2_WritePurgeUseMetadata ==
    (command \in {"Write", "Purge"} /\ metaAtStart.kind = "ok"
     /\ call.op \in {"write", "purge"})
        => HandedFlags(MetadataAtStart)

C2_Witness ==
    /\ command = "Write" /\ call.op = "write" /\ metaAtStart.kind = "ok"
    /\ MetadataAtStart.disable_custom_processing
    /\ ~args.disable_custom_processing
    /\ get_game_type(title, FALSE) = "Termina"
    /\ call.game_type = "None"
    /\ args.trim # MetadataAtStart.trim

(* C3: a read run in which the external Read did not return successfully   *)
(* (it failed or was never reached) ends with the metadata file as it was  *)
(* at the start of the run.                                                *)
C3_MetadataWrittenOnlyAfterRead ==
    (command = "Read" /\ pc = "done" /\ ~(call.op = "read" /\ call.result = "ok"))
        => metaFile = metaAtStart

(* C4: every read run that completes successfully ends with the metadata   *)
(* file present and holding the run's resolved flags.                      *)
C4_SuccessfulReadLeavesMetadata ==
    (command = "Read" /\ pc = "done" /\ result = "Ok")
        => (metaFile.kind = "ok" /\ from_str(metaFile.json) = RunFlags)

(* C5 as claimed: a default- or force-mode read run that found a parseable *)
(* metadata file M uses M's flags.                                         *)
C5_NonAppendReadUsesMetadata ==
    (command = "Read" /\ args.read_mode # "Append" /\ metaAtStart.kind = "ok"
     /\ call.op = "read")
        => (RunFlags = MetadataAtStart /\ HandedFlags(MetadataAtStart))

(* C5, amended: a default- or force-mode read run that found a parseable   *)
(* metadata file M uses the command line's flags whatever M holds: they    *)
(* are the resolved values, the values handed to Read, and (once line 405  *)
(* has run) the content of the rewritten metadata file.                    *)
C5_NonAppendReadUsesCommandLine ==
    (ReadResolved /\ args.read_mode # "Append" /\ metaAtStart.kind = "ok")
        => /\ RunFlags = FlagsOf(args)
           /\ call.op = "read" => HandedFlags(FlagsOf(args))
           /\ pc \in {"unpack", "reader", "done"}
                 => (metaFile.kind = "ok" /\ from_str(metaFile.json) = FlagsOf(args))

C5_Witness ==
    /\ command = "Read" /\ args.read_mode = "Default" /\ metaAtStart.kind = "ok"
    /\ call.op = "read" /\ result = "Ok"
    /\ FlagsOf(args).romanize # MetadataAtStart.romanize
    /\ FlagsOf(args).disable_custom_processing # MetadataAtStart.disable_custom_processing
    /\ metaFile # metaAtStart

(* C6: after a default- or force-mode read run completed successfully with *)
(* flags F, every write or purge run made before the next read run hands   *)
(* the external Write/Purge F's romanize, trim and duplicate mode and the  *)
(* game type of the title under F's disable flag.                          *)
C6_WritePurgeAfterReadUseItsFlags ==
    (command \in {"Write", "Purge"} /\ call.op \in {"write", "purge"} /\ lastRead.valid)
        => HandedFlags(lastRead.flags)

C6_Witness ==
    /\ command = "Purge" /\ call.op = "purge" /\ lastRead.valid
    /\ args.romanize # lastRead.flags.romanize
    /\ args.trim # lastRead.flags.trim
    /\ args.duplicate_mode # lastRead.flags.duplicate_mode
    /\ metaAtStart.kind = "ok"

(* C7: during and after a write or purge run, successful or not, the       *)
(* metadata file is what it was when the run started.                      *)
C7_WritePurgeLeaveMetadata ==
    (command \in {"Write", "Purge"} /\ pc # "idle") => metaFile = metaAtStart

C7_Witness ==
    /\ command = "Write" /\ pc = "done" /\ result = "Err" /\ call.op = "write"
    /\ metaFile.kind = "ok" /\ from_str(metaFile.json) # FlagsOf(args)

(* The prompt of a non-silent force-mode read run has been answered. *)
PromptAnswered ==
    /\ command = "Read" /\ args.read_mode = "Force" /\ ~args.silent
    /\ buf # <<>>

(* The run ended by exit(0) having changed nothing. *)
AbortedCleanly ==
    /\ pc = "done" /\ result = "exit0" /\ ExitStatus(result) = 0
    /\ NothingDone

(* C8 as claimed: if the line entered is not the token "Y", the run ends   *)
(* with exit status 0 having changed nothing.                              *)
C8_AnyOtherLineAborts ==
    (PromptAnswered /\ LineEntered(buf) # Token) => AbortedCleanly

(* C8, amended: if the line entered, with its trailing whitespace removed, *)
(* is not the token "Y", the run ends with exit status 0 having changed    *)
(* nothing: no metadata write, no translation directory, no unpack, no     *)
(* external Read.                                                          *)
C8_OtherTrimmedLineAborts ==
    (PromptAnswered /\ trim_end(buf) # Token) => AbortedCleanly

C8_Witness ==
    /\ PromptAnswered /\ trim_end(buf) # Token /\ AbortedCleanly
    /\ ~translationDir
    /\ HasArchivePath(engine_type) /\ engine_type \notin sysFiles

(* C9: a write or purge run started without a translation directory ends   *)
(* in an error without invoking the external Write or Purge.               *)
C9_NoTranslationDirNoDispatch ==
    (command \in {"Write", "Purge"} /\ ~translationAtStart /\ pc # "idle")
        => (call.op = "none" /\ (pc = "done" => result = "Err"))

(* C10: an append-mode read run with --ignore and no ignore file never     *)
(* reaches the unpack or the external Read, writes nothing, and ends in an *)
(* error.                                                                  *)
C10_MissingIgnoreFileAborts ==
    (command = "Read" /\ args.read_mode = "Append" /\ args.ignore /\ ~ignoreFile
     /\ pc # "idle")
        => /\ pc \notin {"unpack", "reader"}
           /\ NothingDone
           /\ pc = "done" => result = "Err"

C10_Witness ==
    /\ command = "Read" /\ args.read_mode = "Append" /\ args.ignore /\ ~ignoreFile
    /\ pc = "done" /\ result = "Err"
    /\ titleOk /\ metaFile.kind = "ok" /\ RunFlags = from_str(metaFile.json)
    /\ RunFlags # FlagsOf(args)
    /\ HasArchivePath(engine_type) /\ engine_type \notin sysFiles

(***************************************************************************)
(* The archive unpack                                                      *)
(***************************************************************************)
(* C11: the archive is decrypted (successfully or not) only in a read run, *)
(* at the unpack step before the external Read is dispatched, and only     *)
(* while the chosen engine's system descriptor is missing; system files    *)
(* appear only through an unpack and never disappear, and a later run      *)
(* chooses the same engine, so a run that starts with the descriptor       *)
(* present never unpacks.                                                  *)
C11_UnpackOnlyWhileDescriptorMissing ==
    [][ /\ (unpacked' /\ ~unpacked)
            => /\ command = "Read" /\ pc = "unpack"
               /\ call.op = "none" /\ call'.op = "none"
               /\ HasArchivePath(engine_type) /\ engine_type \notin sysFiles
        /\ (pc = "unpack" /\ result' = "Err") => engine_type \notin sysFiles
        /\ sysFiles \subseteq sysFiles'
        /\ sysFiles' # sysFiles => (unpacked' /\ ~unpacked)
        /\ engine_type # NoEngine => engine_type' = engine_type
        /\ (engine_type \in sysFiles /\ ~unpacked) => ~unpacked'
      ]_vars

(* A read run on a directory whose VX descriptor an earlier unpack created *)
(* (no directory tried starts with that descriptor beside the VX archive): *)
(* it reached the external Read without unpacking.                         *)
C11_Witness ==
    /\ sysFiles = {"VX"} /\ archives = {"VX"}
    /\ command = "Read" /\ call.op = "read" /\ ~unpacked

(***************************************************************************)
(* Engine probing on every combination of system files and archives        *)
(***************************************************************************)
ArchiveEngines == {"VXAce", "VX", "XP"}

InitEngine ==
    /\ dirs = "ok"
    /\ sysFiles \in SUBSET EngineTypes
    /\ archives \in SUBSET ArchiveEngines
    /\ titleOk = TRUE
    /\ title = <<"M", "a", "i", "l">>
    /\ translationDir = FALSE
    /\ metaFile = AbsentFile
    /\ ignoreFile = FALSE
    /\ pc = "idle"
    /\ command = "Read"
    /\ args = DefaultArgs
    /\ engine_type = NoEngine
    /\ romanize = FALSE /\ trim = FALSE /\ duplicate_mode = "Allow"
    /\ disable_custom_processing = FALSE /\ game_type = "None"
    /\ buf = <<>>
    /\ result = "none"
    /\ metaAtStart = metaFile
    /\ translationAtStart = translationDir
    /\ call = NoCall
    /\ unpacked = FALSE
    /\ lastRead = NoRead /\ prev = NoPrev
    /\ AssetIdle
    /\ ClockIdle

NextEngine == Launch

SpecEngine == InitEngine /\ [][NextEngine]_vars

(* An entry of the table matches: its system file exists or, for the       *)
(* engines that have one, its archive exists.                              *)
EntryMatches(e) == e \in sysFiles \/ (e \in ArchiveEngines /\ e \in archives)

(* C12: once main has probed, the engine is the first of New, VXAce, VX,   *)
(* XP whose system descriptor or archive exists, and main fails there      *)
(* exactly when no entry matches; with a VXAce descriptor and an XP        *)
(* archive and no New descriptor the engine is VXAce.                      *)
C12_FirstMatchingEngineWins ==
    pc # "idle" =>
        /\ engine_type =
              IF EntryMatches("New") THEN "New"
              ELSE IF EntryMatches("VXAce") THEN "VXAce"
              ELSE IF EntryMatches("VX") THEN "VX"
              ELSE IF EntryMatches("XP") THEN "XP"
              ELSE NoEngine
        /\ (pc = "done" /\ result = "Err") <=> (\A e \in EngineTypes : ~EntryMatches(e))
        /\ ("VXAce" \in sysFiles /\ "XP" \in archives /\ "New" \notin sysFiles)
              => engine_type = "VXAce"

C12_Witness ==
    /\ pc # "idle"
    /\ "VXAce" \in sysFiles /\ "XP" \in archives /\ "New" \notin sysFiles
    /\ "VXAce" \notin archives /\ "XP" \in sysFiles
    /\ engine_type = "VXAce"

(***************************************************************************)
(* Game-type classification on a larger set of titles                      *)
(***************************************************************************)
(* Titles are two pieces put together: the two words in several            *)
(* capitalisations, near misses, and pieces that complete a word across    *)
(* the seam ("Lis" + "a", "Termin" + "a").                                 *)
TitlePieces ==
    { <<>>,
      <<"T", "e", "r", "m", "i", "n", "a">>,
      <<"T", "E", "R", "M", "I", "N", "A">>,
      <<"t", "E", "r", "M", "i", "N", "a">>,
      <<"T", "e", "r", "m", "i", "n">>,
      <<"L", "i", "s", "a">>,
      <<"L", "I", "S", "A">>,
      <<"l", "i", "S", "A">>,
      <<"L", "i", "s">>,
      <<"a">>,
      <<"M", "a", "i", "l">> }

ClassifyTitles == { a \o b : a \in TitlePieces, b \in TitlePieces }

InitClassify ==
    /\ dirs = "ok"
    /\ sysFiles = {"New"}
    /\ archives = {}
    /\ titleOk = TRUE
    /\ title \in ClassifyTitles
    /\ translationDir = FALSE
    /\ metaFile = AbsentFile
    /\ ignoreFile = FALSE
    /\ pc = "idle"
    /\ command = "Read"
    /\ args = DefaultArgs
    /\ engine_type = NoEngine
    /\ romanize = FALSE /\ trim = FALSE /\ duplicate_mode = "Allow"
    /\ disable_custom_processing \in BOOLEAN
    /\ game_type = "None"
    /\ buf = <<>>
    /\ result = "none"
    /\ metaAtStart = metaFile
    /\ translationAtStart = translationDir
    /\ call = NoCall
    /\ unpacked = FALSE
    /\ lastRead = NoRead /\ prev = NoPrev
    /\ AssetIdle
    /\ ClockIdle

(* lines 365-367, 471-473, 514-516: get_game_type(&game_title, flag) *)
Classify ==
    /\ pc = "idle"
    /\ game_type' = get_game_type(title, disable_custom_processing)
    /\ pc' = "classified"
    /\ UNCHANGED <<fsVars, command, args, engine_type, romanize, trim, duplicate_mode,
                   disable_custom_processing, buf, result, metaAtStart,
                   translationAtStart, call, unpacked, lastRead>>
    /\ UNCHANGED <<assetVars, clockVars, prev>>

NextClassify == Classify

SpecClassify == InitClassify /\ [][NextClassify]_vars

(* The word occurs in the title at some position, each letter in either    *)
(* case.                                                                   *)
OccursIgnoringCase(t, lower, upper) ==
    \E i \in 0..(Len(t) - Len(lower)) :
        \A k \in 1..Len(lower) : t[i + k] = lower[k] \/ t[i + k] = upper[k]

HasTermina(t) == OccursIgnoringCase(t, <<"t", "e", "r", "m", "i", "n", "a">>,
                                       <<"T", "E", "R", "M", "I", "N", "A">>)
HasLisa(t) == OccursIgnoringCase(t, <<"l", "i", "s", "a">>, <<"L", "I", "S", "A">>)

(* C13: the game type is None whenever the disable flag is set; otherwise  *)
(* Termina if the title contains "termina" in any capitalisation, else     *)
(* LisaRPG if it contains "lisa", else None; a title with both is Termina. *)
C13_ClassificationByTitleAndFlag ==
    pc = "classified" =>
        /\ disable_custom_processing => game_type = "None"
        /\ ~disable_custom_processing =>
              game_type = IF HasTermina(title) THEN "Termina"
                          ELSE IF HasLisa(title) THEN "LisaRPG"
                          ELSE "None"
        /\ (~disable_custom_processing /\ HasTermina(title) /\ HasLisa(title))
              => game_type = "Termina"

C13_Witness ==
    /\ pc = "classified" /\ ~disable_custom_processing
    /\ title = <<"l", "i", "S", "A">> \o <<"t", "E", "r", "M", "i", "N", "a">>
    /\ game_type = "Termina"

(***************************************************************************)
(* Command::Asset (lines 548-672)                                          *)
(***************************************************************************)
MaxEntries == 2

AssetSubcommands == {"Decrypt", "Encrypt", "ExtractKey"}
Engines == {"MV", "MZ"}

(* --key: absent, a well-formed key, or a string set_key_from_str rejects *)
Keys == {"none", "valid", "invalid"}

DecryptExts == {"rpgmvp", "rpgmvo", "rpgmvm", "ogg_", "png_", "m4a_"}
EncryptExts == {"png", "ogg", "m4a"}

(* lines 637-641 *)
exts(op) == IF op = "Encrypt" THEN EncryptExts ELSE DecryptExts

(* The encrypt table with the MZ rows answering as the MV rows. *)
NewExt_MZAsMV(op, en, ext) ==
    IF op = "Decrypt"
    THEN CASE ext \in {"rpgmvp", "png_"} -> "png"
           [] ext \in {"rpgmvo", "ogg_"} -> "ogg"
           [] ext \in {"rpgmvm", "m4a_"} -> "m4a"
           [] OTHER -> "unreachable"
    ELSE CASE ext = "png" -> "rpgmvp"
           [] ext = "ogg" -> "rpgmvo"
           [] ext = "m4a" -> "rpgmvm"
           [] OTHER -> "unreachable"

(* lines 607-628: the extension of the output file *)
NewExt(op, en, ext) ==
    IF op = "Decrypt"
    THEN CASE ext \in {"rpgmvp", "png_"} -> "png"
           [] ext \in {"rpgmvo", "ogg_"} -> "ogg"
           [] ext \in {"rpgmvm", "m4a_"} -> "m4a"
           [] OTHER -> "unreachable"
    ELSE CASE en = "MV" /\ ext = "png" -> "rpgmvp"
           [] en = "MV" /\ ext = "ogg" -> "rpgmvo"
           [] en = "MV" /\ ext = "m4a" -> "rpgmvm"
           [] en = "MZ" /\ ext = "png" -> "png_"
           [] en = "MZ" /\ ext = "ogg" -> "ogg_"
           [] en = "MZ" /\ ext = "m4a" -> "m4a_"
           [] OTHER -> "unreachable"

(* Extensions of the files tried; "none" is a name without an extension.   *)
FileExts == DecryptExts \cup EncryptExts \cup {"txt", "none"}

(* The --file values: foo.<ext> for every extension, a path that is not a  *)
(* file, and System.json whose text has the marker followed by a whole     *)
(* key, the marker followed by too little text, or no marker.              *)
Files ==
    { [given |-> TRUE, name |-> "foo", ext |-> e, is_file |-> TRUE, marker |-> "absent"] :
          e \in FileExts }
    \cup { [given |-> TRUE, name |-> "foo", ext |-> "png", is_file |-> FALSE,
            marker |-> "absent"] }
    \cup { [given |-> TRUE, name |-> "System", ext |-> "json", is_file |-> TRUE,
            marker |-> m] : m \in {"absent", "short", "full"} }

(* Extensions of the directory entries tried in directory-wide mode. *)
EntryExts == {"png", "rpgmvp", "png_", "txt", "none"}

Entries == [name : {"foo"}, ext : EntryExts]

Listings == UNION { [1..n -> Entries] : n \in 0..MaxEntries }

mainVars == <<fsVars, pc, command, args, engine_type, locals, buf, result,
              metaAtStart, translationAtStart, call, unpacked, lastRead, prev>>

(* main has passed its directory checks and engine probing (lines 273-333) *)
(* on an MV/MZ project and is at `match cli.command`.                      *)
MainAtCommand(c) ==
    /\ dirs = "ok" /\ sysFiles = {"New"} /\ archives = {}
    /\ titleOk = TRUE /\ title = <<"M", "a", "i", "l">>
    /\ translationDir = FALSE /\ metaFile = AbsentFile /\ ignoreFile = FALSE
    /\ pc = c /\ command = c
    /\ engine_type = "New"
    /\ romanize = FALSE /\ trim = FALSE /\ duplicate_mode = "Allow"
    /\ disable_custom_processing = FALSE /\ game_type = "None"
    /\ buf = <<>> /\ result = "none"
    /\ metaAtStart = metaFile /\ translationAtStart = translationDir
    /\ call = NoCall /\ unpacked = FALSE /\ lastRead = NoRead /\ prev = NoPrev

InitAsset ==
    /\ MainAtCommand("Asset")
    /\ args = DefaultArgs
    /\ subcommand \in AssetSubcommands
    /\ key \in Keys
    /\ engine \in Engines \cup {"none"}
    /\ \/ file \in Files /\ dirEntries = <<>>
       \/ file = NoFile /\ dirEntries \in Listings
    /\ apc = "start"
    /\ decrypterKey = "unset"
    /\ idx = 0
    /\ touched = {}
    /\ written = {}
    /\ failedAt = 0
    /\ aresult = "none"
    /\ printed = "none"
    /\ ClockIdle

AssetEnd(r) == apc' = "done" /\ aresult' = r

AssetInputs == <<subcommand, key, file, engine, dirEntries>>

(* lines 551-564: --engine is required; --file must be a file; extract-key *)
(* needs --file.                                                           *)
AssetStart ==
    /\ apc = "start"
    /\ IF engine = "none" THEN AssetEnd("Err")
       ELSE IF file.given /\ ~file.is_file THEN AssetEnd("Err")
       ELSE IF ~file.given /\ subcommand = "ExtractKey" THEN AssetEnd("Err")
       ELSE apc' = "key" /\ aresult' = "none"
    /\ UNCHANGED <<AssetInputs, decrypterKey, idx, touched, written, failedAt, printed>>
    /\ UNCHANGED <<mainVars, clockVars>>

AfterKey == IF subcommand = "ExtractKey" THEN "extract"
            ELSE IF file.given THEN "single" ELSE "dir"

(* lines 566-573: the default key for encrypt without --key; otherwise     *)
(* key.unwrap_unchecked(), which is undefined when --key is absent: the    *)
(* process may die, set_key_from_str may reject what it is handed, or it   *)
(* may accept it and the run goes on with a meaningless key.               *)
AssetKey ==
    /\ apc = "key"
    /\ IF key = "none" /\ subcommand = "Encrypt"
       THEN decrypterKey' = "default" /\ apc' = AfterKey /\ aresult' = "none"
       ELSE IF key = "none"
       THEN \E outcome \in {"crash", "err", "garbage"} :
               IF outcome = "crash" THEN AssetEnd("Crash") /\ decrypterKey' = decrypterKey
               ELSE IF outcome = "err" THEN AssetEnd("Err") /\ decrypterKey' = decrypterKey
               ELSE decrypterKey' = "garbage" /\ apc' = AfterKey /\ aresult' = "none"
       ELSE IF key = "invalid" THEN AssetEnd("Err") /\ decrypterKey' = decrypterKey
       ELSE decrypterKey' = "user" /\ apc' = AfterKey /\ aresult' = "none"
    /\ UNCHANGED <<AssetInputs, idx, touched, written, failedAt, printed>>
    /\ UNCHANGED <<mainVars, clockVars>>

(* lines 575-599: extract the key from System.json or from an encrypted    *)
(* image.  file.extension().unwrap_unchecked() is undefined for a name     *)
(* without extension, and rfind("encryptionKey").unwrap_unchecked() is     *)
(* undefined when the text has no marker: the process may die or go on     *)
(* with a meaningless value.  [..KEY_LENGTH] panics on too short a text.   *)
AssetExtractKey ==
    /\ apc = "extract"
    /\ IF file.ext = "none"
       THEN \E outcome \in {"crash", "bail"} :
               /\ AssetEnd(IF outcome = "crash" THEN "Crash" ELSE "Err")
               /\ UNCHANGED <<touched, printed>>
       ELSE IF file.name = "System" /\ file.ext = "json"
       THEN \E io \in {"ok", "read_err"} :
               /\ touched' = touched \cup {1}
               /\ IF io = "read_err" THEN AssetEnd("Err") /\ printed' = printed
                  ELSE IF file.marker = "absent"
                  THEN \E outcome \in {"crash", "panic", "garbage"} :
                          IF outcome = "crash" THEN AssetEnd("Crash") /\ printed' = printed
                          ELSE IF outcome = "panic"
                          THEN AssetEnd("Panic") /\ printed' = printed
                          ELSE AssetEnd("Ok") /\ printed' = "garbage"
                  ELSE IF file.marker = "short" THEN AssetEnd("Panic") /\ printed' = printed
                  ELSE AssetEnd("Ok") /\ printed' = "key"
       ELSE IF file.ext \in {"png_", "rpgmvp"}
       THEN \E io \in {"ok", "read_err"} :
               /\ touched' = touched \cup {1}
               /\ IF io = "read_err" THEN AssetEnd("Err") /\ printed' = printed
                  ELSE AssetEnd("Ok") /\ printed' = "imagekey"
       ELSE AssetEnd("Err") /\ UNCHANGED <<touched, printed>>
    /\ UNCHANGED <<AssetInputs, decrypterKey, idx, written, failedAt>>
    /\ UNCHANGED <<mainVars, clockVars>>

(* What reading, transforming and writing one file can come to. *)
ProcessOutcomes ==
    IF subcommand = "Encrypt" THEN {"ok", "read_err", "encrypt_err", "write_err"}
    ELSE {"ok", "read_err", "write_err"}

(* lines 601-635: the Result of process_file (a panic at unreachable!()) *)
ProcessResult(ext, outcome) ==
    IF outcome \in {"read_err", "encrypt_err"} THEN "Err"
    ELSE IF NewExt(subcommand, engine, ext) = "unreachable" THEN "Panic"
    ELSE IF outcome = "write_err" THEN "Err"
    ELSE "Ok"

(* lines 601-635: process_file reads the i-th file and, when nothing       *)
(* fails, writes <stem>.<new_ext> to the output directory.                 *)
process_file(i, name, ext, outcome) ==
    /\ touched' = touched \cup {i}
    /\ written' = IF ProcessResult(ext, outcome) = "Ok"
                  THEN written \cup {[idx |-> i, name |-> name,
                                      ext |-> NewExt(subcommand, engine, ext)]}
                  ELSE written

(* lines 643-654: the single file.  extension().unwrap_unchecked() is      *)
(* undefined for a name without extension: the process may die, or the     *)
(* meaningless extension is in no set and nothing is done.                 *)
AssetSingle ==
    /\ apc = "single"
    /\ IF file.ext = "none"
       THEN \E outcome \in {"crash", "skip"} :
               /\ AssetEnd(IF outcome = "crash" THEN "Crash" ELSE "Ok")
               /\ UNCHANGED <<touched, written>>
       ELSE IF file.ext \in exts(subcommand)
       THEN \E outcome \in ProcessOutcomes :
               /\ process_file(1, file.name, file.ext, outcome)
               /\ AssetEnd(ProcessResult(file.ext, outcome))
       ELSE AssetEnd("Ok") /\ UNCHANGED <<touched, written>>
    /\ UNCHANGED <<AssetInputs, decrypterKey, idx, failedAt, printed>>
    /\ UNCHANGED <<mainVars, clockVars>>

(* The directory loop going on to the next entry after a failed one. *)
AssetEntry_ContinueOnError ==
    /\ apc = "dir"
    /\ IF idx = Len(dirEntries)
       THEN AssetEnd("Ok") /\ UNCHANGED <<idx, touched, written, failedAt>>
       ELSE LET entry == dirEntries[idx + 1] IN
            /\ idx' = idx + 1
            /\ IF entry.ext # "none" /\ entry.ext \in exts(subcommand)
               THEN \E outcome \in ProcessOutcomes :
                       /\ process_file(idx + 1, entry.name, entry.ext, outcome)
                       /\ failedAt' = IF ProcessResult(entry.ext, outcome) = "Ok"
                                      THEN failedAt ELSE idx + 1
                       /\ UNCHANGED <<apc, aresult>>
               ELSE UNCHANGED <<apc, aresult, touched, written, failedAt>>
    /\ UNCHANGED <<AssetInputs, decrypterKey, printed>>
    /\ UNCHANGED <<mainVars, clockVars>>

(* lines 655-670: one turn of the read_dir loop, or its end.  An entry     *)
(* without extension or with one outside the set is passed over; a failed  *)
(* process_file leaves main through `?`.                                   *)
AssetEntry ==
    /\ apc = "dir"
    /\ IF idx = Len(dirEntries)
       THEN AssetEnd("Ok") /\ UNCHANGED <<idx, touched, written, failedAt>>
       ELSE LET entry == dirEntries[idx + 1] IN
            /\ idx' = idx + 1
            /\ IF entry.ext # "none" /\ entry.ext \in exts(subcommand)
               THEN \E outcome \in ProcessOutcomes :
                       /\ process_file(idx + 1, entry.name, entry.ext, outcome)
                       /\ IF ProcessResult(entry.ext, outcome) = "Ok"
                          THEN UNCHANGED <<apc, aresult, failedAt>>
                          ELSE /\ AssetEnd(ProcessResult(entry.ext, outcome))
                               /\ failedAt' = idx + 1
               ELSE UNCHANGED <<apc, aresult, touched, written, failedAt>>
    /\ UNCHANGED <<AssetInputs, decrypterKey, printed>>
    /\ UNCHANGED <<mainVars, clockVars>>

NextAsset ==
    \/ AssetStart
    \/ AssetKey
    \/ AssetExtractKey
    \/ AssetSingle
    \/ AssetEntry

SpecAsset == InitAsset /\ [][NextAsset]_vars

AssetTypeOK ==
    /\ apc \in {"start", "key", "extract", "single", "dir", "done"}
    /\ aresult \in {"none", "Ok", "Err", "Panic", "Crash"}
    /\ decrypterKey \in {"unset", "default", "user", "garbage"}
    /\ idx \in 0..Len(dirEntries)
    /\ touched \subseteq 1..(MaxEntries + 1)
    /\ printed \in {"none", "key", "imagekey", "garbage"}
    /\ (apc = "done") <=> (aresult # "none")

(***************************************************************************)
(* Properties of Command::Asset                                            *)
(***************************************************************************)
(* The run had a real key: the user's or the built-in default. *)
ProperKey == decrypterKey \in {"default", "user"}

(* C14: a decrypt run without --key ends in Err having read and written    *)
(* no asset file, and the built-in default key is used only by encrypt.    *)
C14_DecryptWithoutKeyIsAnError ==
    /\ (subcommand = "Decrypt" /\ key = "none" /\ apc = "done")
          => (aresult = "Err" /\ touched = {} /\ written = {})
    /\ decrypterKey = "default" => subcommand = "Encrypt"

(* C15: an encrypt or decrypt run on a single named file whose extension   *)
(* is outside the operation's set does not end in Ok; in directory-wide    *)
(* mode an entry with such an extension is passed over without error.      *)
C15_SingleFileOutsideSetIsAnError ==
    /\ (/\ subcommand \in {"Encrypt", "Decrypt"} /\ ProperKey
        /\ file.given /\ file.ext # "none" /\ file.ext \notin exts(subcommand)
        /\ apc = "done")
          => aresult # "Ok"
    /\ (/\ subcommand \in {"Encrypt", "Decrypt"} /\ ProperKey
        /\ ~file.given /\ apc = "done" /\ aresult = "Err" /\ engine # "none")
          => failedAt # 0 /\ dirEntries[failedAt].ext \in exts(subcommand)

(* C16: a decrypt run on a single file with a decryptable extension and a  *)
(* valid key, with no --engine, succeeds and writes exactly the file with  *)
(* the same stem and the decrypted extension (short of a failure of the    *)
(* file read or write itself).                                             *)
C16_DecryptNeedsNoEngine ==
    (/\ subcommand = "Decrypt" /\ key = "valid" /\ engine = "none"
     /\ file.given /\ file.is_file /\ file.ext \in DecryptExts
     /\ apc = "done")
       => \/ /\ aresult = "Ok"
             /\ written = {[idx |-> 1, name |-> file.name,
                            ext |-> NewExt("Decrypt", "none", file.ext)]}
          \/ aresult = "Err" /\ touched = {1} /\ written = {}

(* C17: in directory-wide mode, once processing an entry has failed the    *)
(* run is over with Err, and no entry after the failed one has been read   *)
(* or written.                                                             *)
C17_FailureAbortsBatch ==
    failedAt # 0 =>
        /\ apc = "done" /\ aresult = "Err"
        /\ idx = failedAt
        /\ \A i \in touched : i <= failedAt
        /\ \A w \in written : w.idx < failedAt

(* The first of two matching entries failed. *)
C17_Witness ==
    /\ ProperKey /\ failedAt = 1 /\ Len(dirEntries) = 2
    /\ dirEntries[2].ext \in exts(subcommand)
    /\ apc = "done" /\ aresult = "Err" /\ touched = {1}

EncryptTargets(en) == { NewExt("Encrypt", en, e) : e \in EncryptExts }
DecryptOutputs == { NewExt("Decrypt", en, e) : en \in Engines, e \in DecryptExts }

(* C18: every accepted extension has an output extension for every         *)
(* operation and engine (the unreachable arm is not taken and no encrypt   *)
(* or decrypt run panics), the MV and MZ encrypt targets are disjoint, no  *)
(* encrypt target is a decrypt output, and every file written carries the  *)
(* one extension the table gives.                                          *)
C18_RemapTotalAndDisjoint ==
    /\ \A op \in {"Decrypt", "Encrypt"}, en \in Engines :
          \A e \in exts(op) : NewExt(op, en, e) # "unreachable"
    /\ EncryptTargets("MV") \cap EncryptTargets("MZ") = {}
    /\ (EncryptTargets("MV") \cup EncryptTargets("MZ")) \cap DecryptOutputs = {}
    /\ subcommand \in {"Decrypt", "Encrypt"} => aresult # "Panic"
    /\ \A w \in written :
          /\ w.ext # "unreachable"
          /\ w.ext \in (IF subcommand = "Encrypt" THEN EncryptTargets(engine)
                        ELSE DecryptOutputs)
          /\ subcommand = "Encrypt" => w.ext \notin EncryptTargets(
                                          IF engine = "MV" THEN "MZ" ELSE "MV")

C18_Witness ==
    /\ subcommand = "Encrypt" /\ engine = "MZ" /\ apc = "done" /\ aresult = "Ok"
    /\ file.given /\ file.ext = "png"
    /\ written = {[idx |-> 1, name |-> "foo", ext |-> "png_"]}

(* C19: extract-key on a System.json without the key marker ends in Err    *)
(* and prints no key.                                                      *)
C19_MissingMarkerIsAnError ==
    (/\ subcommand = "ExtractKey" /\ decrypterKey = "user"
     /\ file.name = "System" /\ file.ext = "json" /\ file.marker = "absent"
     /\ apc = "done")
       => (aresult = "Err" /\ printed = "none")

(***************************************************************************)
(* The elapsed time of a read run (lines 260, 380-394, 675)                *)
(***************************************************************************)
(* Time is counted in ticks.  MaxWork bounds the length of a stretch of    *)
(* work and MaxWait the time the user takes at the prompt; when main       *)
(* starts the monotonic clock reads between MaxWait and MaxWait +          *)
(* MaxUptime, so that every Instant computed is one the clock can hold.    *)
MaxUptime == 2
MaxWork == 2
MaxWait == 2

(* The read invocations timed: a plain one, and force with and without     *)
(* --silent.                                                               *)
TimedCommandLines ==
    { MkArgs(DefaultMetadata, "Default", FALSE, FALSE, FALSE),
      MkArgs(DefaultMetadata, "Force", FALSE, FALSE, FALSE),
      MkArgs(DefaultMetadata, "Force", TRUE, FALSE, FALSE) }

InitElapsed ==
    /\ MainAtCommand("Read")
    /\ args \in TimedCommandLines
    /\ AssetIdle
    /\ now \in MaxWait..(MaxWait + MaxUptime)
    /\ start_time = 0
    /\ launched = 0
    /\ waited = 0
    /\ elapsed = 0
    /\ tpc = "start"

clockFrame == <<fsVars, pc, command, args, engine_type, locals, result,
                metaAtStart, translationAtStart, call, unpacked, lastRead, prev>>

(* line 260: let mut start_time = Instant::now(); *)
ClockStart ==
    /\ tpc = "start"
    /\ start_time' = now
    /\ launched' = now
    /\ tpc' = "configure"
    /\ UNCHANGED <<now, waited, elapsed, buf>>
    /\ UNCHANGED <<clockFrame, assetVars>>

(* lines 261-379: the work up to the prompt takes some time. *)
ClockConfigure ==
    /\ tpc = "configure"
    /\ \E d \in 0..MaxWork : now' = now + d
    /\ tpc' = IF args.read_mode = "Force" /\ ~args.silent THEN "prompt" ELSE "work"
    /\ UNCHANGED <<start_time, launched, waited, elapsed, buf>>
    /\ UNCHANGED <<clockFrame, assetVars>>

(* lines 380-394: start = Instant::now(); the user takes w ticks to enter  *)
(* a line; any line but the token exits with no report; otherwise          *)
(* start_time -= start.elapsed().                                          *)
ClockPrompt ==
    /\ tpc = "prompt"
    /\ \E w \in 0..MaxWait, typed \in TypedTexts :
          /\ now' = now + w
          /\ buf' = typed \o <<LF>>
          /\ IF trim_end(buf') # Token
             THEN tpc' = "exited" /\ UNCHANGED <<start_time, waited>>
             ELSE /\ start_time' = start_time - (now' - now)
                  /\ waited' = w
                  /\ tpc' = "work"
    /\ UNCHANGED <<launched, elapsed>>
    /\ UNCHANGED <<clockFrame, assetVars>>

(* lines 396-441: the rest of the read run takes some time and may fail,   *)
(* in which case main returns before the report.                           *)
ClockWork ==
    /\ tpc = "work"
    /\ \E d \in 0..MaxWork, ok \in BOOLEAN :
          /\ now' = now + d
          /\ tpc' = IF ok THEN "report" ELSE "failed"
    /\ UNCHANGED <<start_time, launched, waited, elapsed, buf>>
    /\ UNCHANGED <<clockFrame, assetVars>>

(* line 675: println!("Elapsed: {:.2}s", start_time.elapsed()...) *)
ClockReport ==
    /\ tpc = "report"
    /\ elapsed' = now - start_time
    /\ tpc' = "reported"
    /\ UNCHANGED <<now, start_time, launched, waited, buf>>
    /\ UNCHANGED <<clockFrame, assetVars>>

NextElapsed ==
    \/ ClockStart
    \/ ClockConfigure
    \/ ClockPrompt
    \/ ClockWork
    \/ ClockReport

SpecElapsed == InitElapsed /\ [][NextElapsed]_vars

(* C20: a confirmed non-silent force read that took T ticks from start to  *)
(* report, w of them blocked on the prompt, reports T - w, and never more  *)
(* than T.                                                                 *)
C20_PromptTimeExcluded ==
    (tpc = "reported" /\ args.read_mode = "Force" /\ ~args.silent)
       => /\ elapsed = (now - launched) - waited
          /\ elapsed <= now - launched

(***************************************************************************)
(* The game type of an append-mode read                                    *)
(***************************************************************************)
(* C23: in an append-mode read run that found a metadata file M, the game  *)
(* type handed to the external Read is the classification of the title     *)
(* under M's disable_custom_processing, not under the command line's.      *)
C23_AppendGameTypeUsesMetadata ==
    (call.op = "read" /\ args.read_mode = "Append" /\ metaAtStart.kind = "ok")
       => call.game_type =
             get_game_type(title, from_str(metaAtStart.json).disable_custom_processing)

(***************************************************************************)
(* Metadata files that carry a hash set                                    *)
(***************************************************************************)
(* The hash sets tried; a hash is named, its 128 bits are not modelled. *)
HashSets == { {}, {"h1"}, {"h1", "h2"} }

(* A metadata file whose JSON object has a `hashes` key beside the four    *)
(* keys of Metadata.  from_str reads it as it reads any object: serde      *)
(* skips a key the struct does not name.                                   *)
WithHashes(f, h) ==
    [kind |-> "ok",
     json |-> [romanize |-> f.romanize,
               disableCustomProcessing |-> f.disable_custom_processing,
               trim |-> f.trim, duplicateMode |-> f.duplicate_mode,
               hashes |-> h]]

HasHashes(mf) == mf.kind = "ok" /\ "hashes" \in DOMAIN mf.json

(* One project (MV/MZ layout, translation directory present) whose         *)
(* metadata file is absent, holds the four flags, or holds the flags and a *)
(* hash set.                                                               *)
InitHashes ==
    /\ dirs = "ok"
    /\ sysFiles = {"New"}
    /\ archives = {}
    /\ titleOk = TRUE
    /\ title = <<"M", "a", "i", "l">>
    /\ translationDir = TRUE
    /\ metaFile \in {AbsentFile}
                    \cup {[kind |-> "ok", json |-> to_string(f)] : f \in StoredFlagSets}
                    \cup {WithHashes(f, h) : f \in StoredFlagSets, h \in HashSets}
    /\ ignoreFile \in BOOLEAN
    /\ pc = "idle"
    /\ command = "Read"
    /\ args = DefaultArgs
    /\ engine_type = NoEngine
    /\ romanize = FALSE /\ trim = FALSE /\ duplicate_mode = "Allow"
    /\ disable_custom_processing = FALSE /\ game_type = "None"
    /\ buf = <<>>
    /\ result = "none"
    /\ metaAtStart = metaFile
    /\ translationAtStart = translationDir
    /\ call = NoCall
    /\ unpacked = FALSE
    /\ lastRead = NoRead /\ prev = NoPrev
    /\ AssetIdle
    /\ ClockIdle

SpecHashes == InitHashes /\ [][Next]_vars

(* C21: in a read run on a metadata file that holds a hash set, that set   *)
(* is what the external Read is handed, and the file still holds a hash    *)
(* set throughout and after the run.                                       *)
C21_HashSetLoadedHandedAndKept ==
    (command = "Read" /\ HasHashes(metaAtStart)) =>
        /\ HasHashes(metaFile)
        /\ call.op = "read" =>
              /\ "hashes" \in DOMAIN call
              /\ call.hashes = metaAtStart.json.hashes

(***************************************************************************)
(* The same read run twice in succession                                   *)
(***************************************************************************)
(* main (lines 259-346) started again with the command line of the read    *)
(* run that has just returned Ok, nothing having touched the project in    *)
(* between; `prev` keeps the metadata file as that run left it.            *)
LaunchAgain ==
    /\ pc = "done" /\ command = "Read" /\ result = "Ok"
    /\ prev' = [valid |-> TRUE, file |-> metaFile]
    /\ lastRead' = NoRead
    /\ metaAtStart' = metaFile
    /\ translationAtStart' = translationDir
    /\ call' = NoCall
    /\ unpacked' = FALSE
    /\ buf' = <<>>
    /\ romanize' = FALSE /\ trim' = FALSE /\ duplicate_mode' = "Allow"
    /\ disable_custom_processing' = FALSE /\ game_type' = "None"
    /\ engine_type' = IF dirs = "ok" THEN ResolveEngine(sysFiles, archives) ELSE NoEngine
    /\ IF dirs # "ok" \/ ResolveEngine(sysFiles, archives) = NoEngine
       THEN Bail
       ELSE pc' = command /\ result' = "none"
    /\ UNCHANGED <<fsVars, command, args>>
    /\ UNCHANGED <<assetVars, clockVars>>

NextTwice == Next \/ LaunchAgain

SpecTwice == InitHashes /\ [][NextTwice]_vars

(* C22: when an append-mode read run that returned Ok is run again with    *)
(* the same command line, the metadata file after the second run (flags    *)
(* and hash set, or its absence) is the file the first run left.           *)
C22_AppendReadTwiceSameMetadata ==
    (prev.valid /\ command = "Read" /\ args.read_mode = "Append" /\ pc = "done")
       => metaFile = prev.file

(* The second run has returned Ok on a file with a hash set whose romanize *)
(* differs from the command line's.                                        *)
C22_Witness ==
    /\ prev.valid /\ command = "Read" /\ args.read_mode = "Append"
    /\ pc = "done" /\ result = "Ok" /\ call.op = "read"
    /\ HasHashes(metaFile) /\ metaFile.json.hashes = {"h1", "h2"}
    /\ metaFile.json.romanize # args.romanize
    /\ metaFile = prev.file
====
